---- MODULE Spec2Model ----
(***************************************************************************)
(* Model of emotion_gui.py: the two feature extractors                     *)
(* (extract_mfcc_sequence, extract_mel_features), the gender / age /       *)
(* emotion cascade of analyze_audio, and the browse_file handler that      *)
(* drives it.                                                              *)
(*                                                                         *)
(* Matrices are sequences of rows; a row is a sequence of cells.  Indices  *)
(* are 1-based here and 0-based in numpy; ArgMax returns numpy's 0-based   *)
(* index.  Spectrogram power is carried by its level 10*log10(power), an   *)
(* integer number of decibels, so that power_to_db is integer arithmetic.  *)
(***************************************************************************)
EXTENDS Integers, Sequences, FiniteSets, TLC

VARIABLES
    pc,            \* position of the running call
    file_path,     \* the file the call was given
    mfcc_seq,      \* analyze_audio: mfcc_seq
    X_mfcc,        \* analyze_audio: X_mfcc
    gender_pred,   \* analyze_audio: gender_pred
    age_pred,      \* analyze_audio: age_pred
    mel_feat,      \* analyze_audio: mel_feat
    X_mel,         \* analyze_audio: X_mel
    emotion_pred,  \* analyze_audio: emotion_pred
    calls,         \* the calls made to collaborators so far, in order
    result,        \* what analyze_audio returned
    returns,       \* number of return statements analyze_audio executed
    raised,        \* an exception left analyze_audio
    result_label   \* the GUI label: [text, fg]

vars == << pc, file_path, mfcc_seq, X_mfcc, gender_pred, age_pred, mel_feat,
           X_mel, emotion_pred, calls, result, returns, raised, result_label >>

-----------------------------------------------------------------------------
(* Program constants *)

MAX_LEN == 160      \* max_len=160
N_MFCC == 13        \* n_mfcc=13
N_MELS == 128       \* n_mels=128
TOP_DB == 80        \* power_to_db: top_db default
AMIN_DB == -100     \* power_to_db: amin default 1e-10, as a level

(* Bounds of the model *)

MaxExtra == 2       \* inputs have up to MAX_LEN + MaxExtra analysis frames
Mass == 2           \* a classifier output spreads Mass units of probability
NumEmotionOutputs == 4  \* width of the emotion classifier's output

MaxFrames == MAX_LEN + MaxExtra

\* Python's None
None == << >>

-----------------------------------------------------------------------------
(* Inputs: a path names no readable file, or a file whose decoded signal   *)
(* has `frames` analysis frames.  The frame `PeakFrame` carries power      *)
(* level `loud`, every other frame `quiet`.                                *)

SILENCE == AMIN_DB - 100  \* a level below amin: zero power

NoSuchFile == [exists |-> FALSE]

\* a loud onset over a faint floor; a quieter close after digital silence
Profiles ==
    { [peakLast |-> FALSE, loud |-> 0, quiet |-> -90],
      [peakLast |-> TRUE, loud |-> -30, quiet |-> SILENCE] }

Signals ==
    { [exists |-> TRUE, frames |-> n, peakLast |-> p.peakLast, loud |-> p.loud,
       quiet |-> p.quiet] : n \in 0..MaxFrames, p \in Profiles }

PeakFrame(y) == IF y.peakLast THEN y.frames ELSE 1

-----------------------------------------------------------------------------
(* numpy helpers *)

Shape1(m) == IF Len(m) = 0 THEN 0 ELSE Len(m[1])

Zeros(w) == [k \in 1..w |-> 0]

\* np.pad(m, pad_width=((0, 0), (0, pad_width)), mode='constant')
PadCols(m, pad_width) == [r \in 1..Len(m) |-> m[r] \o Zeros(pad_width)]

\* m[:, -max_len:], the last max_len columns
TruncColsLast(m, max_len) ==
    [r \in 1..Len(m) |-> SubSeq(m[r], Len(m[r]) - max_len + 1, Len(m[r]))]

\* m[:, :max_len]
TruncCols(m, max_len) == [r \in 1..Len(m) |-> SubSeq(m[r], 1, max_len)]

\* m.T
Transpose(m) == [t \in 1..Shape1(m) |-> [c \in 1..Len(m) |-> m[c][t]]]

\* m[..., np.newaxis]
NewAxis(m) == [r \in 1..Len(m) |-> [t \in 1..Len(m[r]) |-> << m[r][t] >>]]

\* np.expand_dims(a, axis=0)
ExpandDims(a) == << a >>

Max2(a, b) == IF a >= b THEN a ELSE b

SetMax(S) == CHOOSE x \in S : \A z \in S : z <= x

Cells(m) == { m[r][t] : r \in 1..Len(m), t \in 1..Shape1(m) }

\* np.max over a non-empty matrix
MatMax(m) == SetMax(Cells(m))

\* np.argmax of a vector: the first (0-based) index of the maximum
ArgMax(v) ==
    (CHOOSE i \in 1..Len(v) :
        /\ \A j \in 1..Len(v) : v[j] <= v[i]
        /\ \A j \in 1..(i - 1) : v[j] < v[i]) - 1

-----------------------------------------------------------------------------
(* librosa *)

\* librosa.load(file_path, sr=22050) raises on a path it cannot decode
Loadable(path) == path.exists

load(path) == path

\* librosa.feature.mfcc(y, sr, n_mfcc=13): N_MFCC rows, one column per frame;
\* every cell gets a value determined by its signal, coefficient and frame.
mfcc(y) ==
    [c \in 1..N_MFCC |->
        [t \in 1..y.frames |->
            (IF y.peakLast THEN -1 ELSE 1) * (t * N_MFCC + c)]]

\* librosa.feature.melspectrogram(y, sr, n_mels=128): N_MELS rows of power
melspectrogram(y) ==
    [b \in 1..N_MELS |->
        [t \in 1..y.frames |-> IF t = PeakFrame(y) THEN y.loud ELSE y.quiet]]

\* librosa.power_to_db(S) with the default ref=1.0
power_to_db_ref1(S) ==
    LET log_spec == [r \in 1..Len(S) |-> [t \in 1..Shape1(S) |->
                        Max2(AMIN_DB, S[r][t]) - Max2(AMIN_DB, 0)]]
        floor == MatMax(log_spec) - TOP_DB
    IN  [r \in 1..Len(S) |-> [t \in 1..Shape1(S) |-> Max2(log_spec[r][t], floor)]]

\* librosa.power_to_db(S, ref=np.max), S non-empty:
\* 10*log10(max(amin, S)) - 10*log10(max(amin, max(S))), floored at top_db
\* below the result's own maximum.
power_to_db(S) ==
    LET ref_value == MatMax(S)
        log_spec == [r \in 1..Len(S) |-> [t \in 1..Shape1(S) |->
                        Max2(AMIN_DB, S[r][t]) - Max2(AMIN_DB, ref_value)]]
        floor == MatMax(log_spec) - TOP_DB
    IN  [r \in 1..Len(S) |-> [t \in 1..Shape1(S) |-> Max2(log_spec[r][t], floor)]]

-----------------------------------------------------------------------------
(* Feature extraction *)

\* the pad / truncate branch shared by both extractors
FitTime(m, max_len) ==
    IF Shape1(m) < max_len
    THEN PadCols(m, max_len - Shape1(m))
    ELSE TruncCols(m, max_len)

extract_mfcc_sequence(path, max_len) ==
    IF ~Loadable(path) THEN None
    ELSE Transpose(FitTime(mfcc(load(path)), max_len))

extract_mel_features(path, max_len) ==
    IF ~Loadable(path) THEN None
    ELSE LET mel == melspectrogram(load(path))
         IN  IF Shape1(mel) = 0 THEN None      \* np.max of an empty array raises
             ELSE NewAxis(FitTime(power_to_db(mel), max_len))

-----------------------------------------------------------------------------
(* Collaborators loaded at start-up *)

RECURSIVE Sum(_)
Sum(v) == IF Len(v) = 0 THEN 0 ELSE v[1] + Sum(Tail(v))

\* outputs a classifier with k classes can return for a batch of one: the
\* distributions over the k classes in units of 1/Mass
Predictions(k) == { << v >> : v \in { w \in [1..k -> 0..Mass] : Sum(w) = Mass } }

\* np.argmax flattens its argument
Ravel(pred) == pred[1]

\* emotion_encoder: the fitted label table
emotion_classes == << "angry", "calm", "happy" >>

InRange(i) == i \in 0..(Len(emotion_classes) - 1)

\* the table read from its other end
inverse_transform_reversed(i) == emotion_classes[Len(emotion_classes) - i]

\* emotion_encoder.inverse_transform([i])[0]; raises on an unseen index
inverse_transform(i) == emotion_classes[i + 1]

-----------------------------------------------------------------------------
(* analyze_audio *)

Call(fn, arg) == [fn |-> fn, arg |-> arg]

Msg(mark, head, tail) == [mark |-> mark, head |-> head, tail |-> tail]

\* a return statement
Return(r) ==
    /\ result' = r
    /\ returns' = returns + 1
    /\ pc' = "done"
    /\ UNCHANGED raised

\* a handler too narrow for the failure: the exception leaves analyze_audio
CatchNarrow(e) ==
    /\ raised' = TRUE
    /\ pc' = "done"
    /\ UNCHANGED << result, returns >>

\* except Exception as e: return f"Error: {e}"
Catch(e) == Return(Msg("cross", "Error", e))

\* the two classes taken for each other
GenderSwapped(pred) == IF ArgMax(Ravel(pred)) = 0 THEN "male" ELSE "female"

\* "male" if np.argmax(gender_pred) == 1 else "female"
Gender(pred) == IF ArgMax(Ravel(pred)) = 1 THEN "male" ELSE "female"

\* the senior class taken to be class 0
IsSeniorSwapped(pred) == ArgMax(Ravel(pred)) = 0

\* np.argmax(age_pred) == 1
IsSenior(pred) == ArgMax(Ravel(pred)) = 1

\* the tensor without its batch axis
AgeInputUnbatched == mfcc_seq

\* the tensor handed to age_model.predict
AgeInput == X_mfcc

\* an extractor that decodes the file a second time
LoadsTwice(path) == << Call("librosa.load", path), Call("librosa.load", path) >>

\* the librosa.load calls one extraction makes
Loads(path) == << Call("librosa.load", path) >>

Locals == << mfcc_seq, X_mfcc, gender_pred, age_pred, mel_feat, X_mel, emotion_pred >>

\* Step 1, first half: the coefficient tensor
ExtractMfcc ==
    /\ pc = "Start"
    /\ \E fault \in BOOLEAN :
         LET m == IF fault THEN None ELSE extract_mfcc_sequence(file_path, MAX_LEN)
         IN  /\ calls' = calls \o << Call("extract_mfcc_sequence", file_path) >>
                               \o Loads(file_path)
             /\ IF m = None
                THEN /\ Return(Msg("cross", "Error", "Could not extract MFCC sequence."))
                     /\ UNCHANGED << mfcc_seq, X_mfcc >>
                ELSE /\ mfcc_seq' = m
                     /\ X_mfcc' = ExpandDims(m)
                     /\ pc' = "GenderCheck"
                     /\ UNCHANGED << result, returns, raised >>
    /\ UNCHANGED << file_path, gender_pred, age_pred, mel_feat, X_mel, emotion_pred,
                    result_label >>

\* Step 1, second half: the gender gate
GenderCheck ==
    /\ pc = "GenderCheck"
    /\ calls' = Append(calls, Call("gender_model.predict", X_mfcc))
    /\ \/ /\ Catch("gender_model.predict failed")
          /\ UNCHANGED gender_pred
       \/ \E out \in Predictions(2) :
            /\ gender_pred' = out
            /\ IF Gender(out) = "female"
               THEN Return(Msg("no_entry", "Rejected", "Female voice detected."))
               ELSE /\ pc' = "AgeCheck"
                    /\ UNCHANGED << result, returns, raised >>
    /\ UNCHANGED << file_path, mfcc_seq, X_mfcc, age_pred, mel_feat, X_mel,
                    emotion_pred, result_label >>

\* Step 2: the age gate
AgeCheck ==
    /\ pc = "AgeCheck"
    /\ calls' = Append(calls, Call("age_model.predict", AgeInput))
    /\ \/ /\ Catch("age_model.predict failed")
          /\ UNCHANGED age_pred
       \/ \E out \in Predictions(2) :
            /\ age_pred' = out
            /\ IF ~IsSenior(out)
               THEN Return(Msg("no_entry", "Rejected", "Not a senior (under 60)."))
               ELSE /\ pc' = "EmotionClassify"
                    /\ UNCHANGED << result, returns, raised >>
    /\ UNCHANGED << file_path, mfcc_seq, X_mfcc, gender_pred, mel_feat, X_mel,
                    emotion_pred, result_label >>

\* Step 3, first half: the spectrogram tensor
ExtractMel ==
    /\ pc = "EmotionClassify"
    /\ \E fault \in BOOLEAN :
         LET m == IF fault THEN None ELSE extract_mel_features(file_path, MAX_LEN)
         IN  /\ calls' = calls \o << Call("extract_mel_features", file_path) >>
                               \o Loads(file_path)
             /\ IF m = None
                THEN /\ Return(Msg("cross", "Error", "Could not extract Mel features."))
                     /\ UNCHANGED << mel_feat, X_mel >>
                ELSE /\ mel_feat' = m
                     /\ X_mel' = ExpandDims(m)
                     /\ pc' = "EmotionPredict"
                     /\ UNCHANGED << result, returns, raised >>
    /\ UNCHANGED << file_path, mfcc_seq, X_mfcc, gender_pred, age_pred, emotion_pred,
                    result_label >>

\* Step 3, second half: the emotion classifier and the label table
EmotionPredict ==
    /\ pc = "EmotionPredict"
    /\ \/ /\ calls' = Append(calls, Call("emotion_model.predict", X_mel))
          /\ Catch("emotion_model.predict failed")
          /\ UNCHANGED emotion_pred
       \/ \E out \in Predictions(NumEmotionOutputs) :
            LET i == ArgMax(Ravel(out))
            IN  /\ emotion_pred' = out
                /\ calls' = calls \o << Call("emotion_model.predict", X_mel),
                                        Call("emotion_encoder.inverse_transform", i) >>
                /\ IF InRange(i)
                   THEN Return(Msg("check", "Detected Emotion", inverse_transform(i)))
                   ELSE Catch("y contains previously unseen labels")
    /\ UNCHANGED << file_path, mfcc_seq, X_mfcc, gender_pred, age_pred, mel_feat, X_mel,
                    result_label >>

-----------------------------------------------------------------------------
(* browse_file *)

\* the files the dialog can return
GuiFiles ==
    {NoSuchFile} \cup
    { s \in Signals : s.frames \in {0, MAX_LEN - 1, MaxFrames} }

\* what the dialog returns on cancel
EmptyPath == << >>

Fresh ==
    /\ mfcc_seq = None /\ X_mfcc = None /\ gender_pred = None /\ age_pred = None
    /\ mel_feat = None /\ X_mel = None /\ emotion_pred = None
    /\ calls = << >> /\ result = None /\ returns = 0 /\ raised = FALSE

\* the dialog returns a path (or nothing, on cancel) and the call starts
BrowseFile ==
    /\ pc = "idle"
    /\ \E chosen \in GuiFiles \cup {EmptyPath} :
         IF chosen = EmptyPath
         THEN UNCHANGED vars
         ELSE /\ file_path' = chosen
              /\ result_label' = [text |-> "Processing...", fg |-> "orange"]
              /\ pc' = "Start"
              /\ UNCHANGED << Locals, calls, result, returns, raised >>

\* analyze_audio has returned: the label shows its result
ShowResult ==
    /\ pc = "done"
    /\ ~raised
    /\ result_label' = [text |-> result,
                        fg |-> IF result.mark = "check" THEN "green" ELSE "red"]
    /\ pc' = "idle"
    /\ file_path' = None
    /\ mfcc_seq' = None /\ X_mfcc' = None /\ gender_pred' = None /\ age_pred' = None
    /\ mel_feat' = None /\ X_mel' = None /\ emotion_pred' = None
    /\ calls' = << >> /\ result' = None /\ returns' = 0 /\ raised' = FALSE

Init ==
    /\ pc = "idle"
    /\ file_path = None
    /\ Fresh
    /\ result_label = [text |-> "", fg |-> "black"]

Next ==
    \/ BrowseFile
    \/ ExtractMfcc
    \/ GenderCheck
    \/ AgeCheck
    \/ ExtractMel
    \/ EmotionPredict
    \/ ShowResult

Spec == Init /\ [][Next]_vars

-----------------------------------------------------------------------------
(* The extractors called on their own, over every input *)

AllFiles == {NoSuchFile} \cup Signals

FeatInit ==
    /\ pc = "feat_start"
    /\ file_path \in AllFiles
    /\ Fresh
    /\ result_label = [text |-> "", fg |-> "black"]

FeatMfcc ==
    /\ pc = "feat_start"
    /\ mfcc_seq' = extract_mfcc_sequence(file_path, MAX_LEN)
    /\ pc' = "feat_mfcc"
    /\ UNCHANGED << file_path, X_mfcc, gender_pred, age_pred, mel_feat, X_mel,
                    emotion_pred, calls, result, returns, raised, result_label >>

FeatMel ==
    /\ pc = "feat_mfcc"
    /\ mel_feat' = extract_mel_features(file_path, MAX_LEN)
    /\ pc' = "feat_mel"
    /\ UNCHANGED << file_path, mfcc_seq, X_mfcc, gender_pred, age_pred, X_mel,
                    emotion_pred, calls, result, returns, raised, result_label >>

FeatNext == FeatMfcc \/ FeatMel

SpecFeat == FeatInit /\ [][FeatNext]_vars

-----------------------------------------------------------------------------
(* Properties *)

Count(fn) == Cardinality({ k \in 1..Len(calls) : calls[k].fn = fn })

IndexOf(pred) == ArgMax(Ravel(pred))

Terminal == {"Error", "Rejected", "Detected Emotion"}

InFlight == {"Start", "GenderCheck", "AgeCheck", "EmotionClassify", "EmotionPredict"}

\* C1: every call of analyze_audio ends with exactly one result, and that
\* result is an Error, a Rejected or a Detected message: while the call runs
\* nothing has been returned; when it has ended, one return statement ran,
\* no exception left it and the value is one of the three.
ExactlyOneResult ==
    /\ pc \in InFlight => (returns = 0 /\ result = None /\ ~raised)
    /\ pc = "done" =>
         /\ ~raised
         /\ returns = 1
         /\ result # None
         /\ result.head \in Terminal

ErrorAfterEmotionStage ==
    /\ pc = "done"
    /\ result # None
    /\ result.head = "Error"
    /\ Count("emotion_model.predict") = 1

\* C2: once the gender classifier's arg-max is not 1, or the age
\* classifier's arg-max is not 1, emotion_model.predict is never called.
NoEmotionAfterRejection ==
    (\/ gender_pred # None /\ IndexOf(gender_pred) # 1
     \/ age_pred # None /\ IndexOf(age_pred) # 1)
    => Count("emotion_model.predict") = 0

NonSeniorEnded ==
    /\ pc = "done"
    /\ age_pred # None
    /\ IndexOf(age_pred) # 1
    /\ Count("emotion_model.predict") = 0

\* C3: extract_mel_features is called at most once per call of
\* analyze_audio, and only after coefficient extraction succeeded, the
\* gender classifier answered class 1 and the age classifier answered
\* class 1, in that order.
MelOnlyAfterBothGates ==
    /\ Count("extract_mel_features") <= 1
    /\ \A k \in 1..Len(calls) :
         calls[k].fn = "extract_mel_features" =>
            /\ mfcc_seq # None
            /\ gender_pred # None /\ IndexOf(gender_pred) = 1
            /\ age_pred # None /\ IndexOf(age_pred) = 1
            /\ \E g \in 1..(k - 1) : \E a \in (g + 1)..(k - 1) :
                 /\ calls[g].fn = "gender_model.predict"
                 /\ calls[a].fn = "age_model.predict"

MelExtractedOnce ==
    /\ pc = "done"
    /\ Count("extract_mel_features") = 1

\* a stage of the finished call failed
MfccFailed == Count("extract_mfcc_sequence") = 1 /\ mfcc_seq = None
MelFailed == Count("extract_mel_features") = 1 /\ mel_feat = None
GenderFailed == Count("gender_model.predict") = 1 /\ gender_pred = None
AgeFailed == Count("age_model.predict") = 1 /\ age_pred = None
EmotionFailed == Count("emotion_model.predict") = 1 /\ emotion_pred = None
LabelFailed ==
    \E k \in 1..Len(calls) :
        calls[k].fn = "emotion_encoder.inverse_transform" /\ ~InRange(calls[k].arg)

Failed ==
    MfccFailed \/ MelFailed \/ GenderFailed \/ AgeFailed \/ EmotionFailed \/ LabelFailed

\* C4: a call of analyze_audio in which a stage failed (the file could not
\* be decoded, an extraction failed, a classifier raised, the label table
\* rejected the index) has ended, when it ends, with an Error message
\* returned to the caller; a path that names no file gives an Error.
FailureGivesError ==
    /\ ~raised
    /\ (pc = "done" /\ (Failed \/ ~Loadable(file_path))) =>
          /\ returns = 1
          /\ result # None
          /\ result.head = "Error"
    /\ (pc \in InFlight) => ~Failed

LabelFailureEnded ==
    /\ pc = "done"
    /\ LabelFailed
    /\ result # None
    /\ result.head = "Error"

FemaleMsg == Msg("no_entry", "Rejected", "Female voice detected.")

\* C5: when coefficient extraction succeeded and the gender classifier's
\* arg-max is class 0, the call has ended with the female-voice rejection
\* and no later stage was called.
FemaleIsRejected ==
    (mfcc_seq # None /\ gender_pred # None /\ IndexOf(gender_pred) = 0) =>
        /\ pc = "done"
        /\ result = FemaleMsg
        /\ Count("age_model.predict") = 0
        /\ Count("extract_mel_features") = 0
        /\ Count("emotion_model.predict") = 0

FemaleEnded ==
    /\ pc = "done"
    /\ gender_pred # None
    /\ IndexOf(gender_pred) = 0
    /\ result = FemaleMsg

\* C6: when both extractions succeeded, the gender and age arg-max are 1
\* and the emotion arg-max i is an index of the label table, the call
\* returns the Detected message carrying the table's label for i; index 2
\* gives "happy".
DetectedCarriesLabel ==
    (/\ pc = "done"
     /\ mfcc_seq # None /\ mel_feat # None
     /\ gender_pred # None /\ IndexOf(gender_pred) = 1
     /\ age_pred # None /\ IndexOf(age_pred) = 1
     /\ emotion_pred # None
     /\ IndexOf(emotion_pred) \in 0..(Len(emotion_classes) - 1))
    => /\ result = Msg("check", "Detected Emotion",
                       emotion_classes[IndexOf(emotion_pred) + 1])
       /\ (IndexOf(emotion_pred) = 2 => result.tail = "happy")

DetectedHappy ==
    /\ pc = "done"
    /\ emotion_pred # None
    /\ IndexOf(emotion_pred) = 2
    /\ result = Msg("check", "Detected Emotion", "happy")

\* C7: for a file of n frames, extract_mfcc_sequence returns MAX_LEN rows
\* (time-major) of N_MFCC coefficients; row t is computed frame t for
\* t <= n and all zeros for t > n, so a longer input keeps its first
\* MAX_LEN frames.
MfccFitsTime ==
    mfcc_seq # None =>
        /\ Len(mfcc_seq) = MAX_LEN
        /\ \A t \in 1..MAX_LEN :
             mfcc_seq[t] = [c \in 1..N_MFCC |->
                              IF t <= file_path.frames
                              THEN mfcc(load(file_path))[c][t]
                              ELSE 0]

MfccTruncated ==
    /\ mfcc_seq # None
    /\ file_path.frames > MAX_LEN
    /\ Len(mfcc_seq) = MAX_LEN

TensorMax(x) == SetMax({ x[r][t][1] : r \in 1..Len(x), t \in 1..Shape1(x) })

\* a cell of maximum power lies in the first MAX_LEN frames
PeakKept(y) ==
    LET mel == melspectrogram(y)
        head == { mel[r][t] : r \in 1..Len(mel), t \in 1..Max2(0, MAX_LEN - Max2(0, MAX_LEN - Shape1(mel))) }
    IN  head # {} /\ SetMax(head) = MatMax(mel)

AgeSeesGenderTensor ==
    /\ pc \in (InFlight \ {"Start"}) \cup {"done"} =>
          Count("extract_mfcc_sequence") = 1
    /\ \A k \in 1..Len(calls) :
         calls[k].fn = "age_model.predict" =>
            \E g \in 1..(k - 1) :
                /\ calls[g].fn = "gender_model.predict"
                /\ calls[g].arg = calls[k].arg

AgeCalled ==
    /\ pc = "done"
    /\ Count("age_model.predict") = 1

\* C10 as stated: a call of analyze_audio decodes the file at most once.
LoadAtMostOnce == Count("librosa.load") <= 1

\* C10: a call of analyze_audio decodes the file once in each extractor it
\* calls and nowhere else: once for the coefficient tensor and, only when
\* both gates passed, once more for the spectrogram tensor.
LoadOncePerExtraction ==
    /\ Count("librosa.load") = Count("extract_mfcc_sequence") + Count("extract_mel_features")
    /\ Count("librosa.load") <= 2
    /\ \A k \in 1..Len(calls) :
         calls[k].fn = "librosa.load" =>
            k > 1 /\ calls[k - 1].fn \in {"extract_mfcc_sequence", "extract_mel_features"}
    /\ Count("librosa.load") = 2 =>
         /\ gender_pred # None /\ IndexOf(gender_pred) = 1
         /\ age_pred # None /\ IndexOf(age_pred) = 1

LoadedTwice ==
    /\ pc = "done"
    /\ Count("librosa.load") = 2

====
